---- MODULE Spec2Model ----
(***************************************************************************)
(* A model of autolint (autolint/autolint.py, autolint/runners.py): the    *)
(* AutoLint object, its run_linter pipeline (discover, filter, classify,   *)
(* dispatch, report), the per-file runner and the command line entry.      *)
(*                                                                         *)
(* Text is modelled as sequences of one-character strings, bytes as        *)
(* sequences of integers in 0..255.  A python dict read by key is a        *)
(* function whose DOMAIN is the set of keys present; a dict whose          *)
(* iteration order matters is a sequence of <<key, value>> pairs in        *)
(* insertion order.                                                        *)
(***************************************************************************)
EXTENDS Integers, Sequences, FiniteSets, TLC

(***************************************************************************)
(* Bounds of the model.                                                    *)
(***************************************************************************)
\* most files found under the target directory in one run
MaxFiles == 2
\* longest linters list of a language in a configuration
MaxLinters == 2
\* longest ignore file (rules) in the filter specification
MaxRules == 3
\* most include patterns of a language in the classification specification
MaxPatterns == 2
\* most flags of a command template in the command specification
MaxFlags == 1

(***************************************************************************)
(* Generic helpers on sequences and sets.                                  *)
(***************************************************************************)
Range(s) == {s[i] : i \in 1..Len(s)}

SeqsUpTo(S, n) == UNION {[1..k -> S] : k \in 0..n}

\* all the orders in which the elements of a finite set can be iterated
Perms(S) ==
  {s \in [1..Cardinality(S) -> S] : \A x \in S : \E i \in DOMAIN s : s[i] = x}

\* str(c): the one-character strings of a python string literal
IsPrefixAt(s, i, p) ==
  /\ i + Len(p) - 1 <= Len(s)
  /\ \A k \in 1..Len(p) : s[i + k - 1] = p[k]

\* python: p in s
Contains(s, p) == \E i \in 1..(Len(s) + 1) : IsPrefixAt(s, i, p)

\* python: s.replace(old, new), leftmost non-overlapping occurrences, old # ""
RECURSIVE ReplaceFrom(_, _, _, _)
ReplaceFrom(s, i, old, new) ==
  IF i > Len(s) THEN <<>>
  ELSE IF IsPrefixAt(s, i, old)
       THEN new \o ReplaceFrom(s, i + Len(old), old, new)
       ELSE <<s[i]>> \o ReplaceFrom(s, i + 1, old, new)

StrReplace(s, old, new) == ReplaceFrom(s, 1, old, new)

(***************************************************************************)
(* fnmatch.fnmatch(name, pat): shell-style matching of the whole path.     *)
(* "*" matches any run of characters (also "/"), "?" one character,        *)
(* "[seq]" / "[!seq]" one character in / not in seq, anything else itself. *)
(***************************************************************************)
\* position of the "]" closing the class opened at pat[i], or 0
ClassEnd(pat, i) ==
  LET first == IF i + 1 <= Len(pat) /\ pat[i + 1] = "!" THEN i + 2 ELSE i + 1
      cands == {j \in (first + 1)..Len(pat) : pat[j] = "]"}
  IN IF cands = {} THEN 0
     ELSE CHOOSE j \in cands : \A k \in cands : j <= k

RECURSIVE FnmatchFrom(_, _, _, _)
FnmatchFrom(name, i, pat, j) ==
  IF j > Len(pat) THEN i > Len(name)
  ELSE IF pat[j] = "*"
       THEN \E k \in i..(Len(name) + 1) : FnmatchFrom(name, k, pat, j + 1)
  ELSE IF i > Len(name) THEN FALSE
  ELSE IF pat[j] = "?" THEN FnmatchFrom(name, i + 1, pat, j + 1)
  ELSE IF pat[j] = "[" /\ ClassEnd(pat, j) # 0
       THEN LET e == ClassEnd(pat, j)
                neg == pat[j + 1] = "!"
                members == {pat[k] : k \in (IF neg THEN j + 2 ELSE j + 1)..(e - 1)}
            IN /\ (name[i] \in members) # neg
               /\ FnmatchFrom(name, i + 1, pat, e + 1)
  ELSE name[i] = pat[j] /\ FnmatchFrom(name, i + 1, pat, j + 1)

Fnmatch(name, pat) == FnmatchFrom(name, 1, pat, 1)

(***************************************************************************)
(* bytes.decode('utf-8'): one- and two-byte sequences decode to their code *)
(* point; any other byte raises UnicodeDecodeError.                        *)
(***************************************************************************)
RECURSIVE Utf8Valid(_, _)
Utf8Valid(b, i) ==
  IF i > Len(b) THEN TRUE
  ELSE IF b[i] < 128 THEN Utf8Valid(b, i + 1)
  ELSE IF b[i] >= 194 /\ b[i] <= 223
       THEN /\ i + 1 <= Len(b)
            /\ b[i + 1] >= 128 /\ b[i + 1] <= 191
            /\ Utf8Valid(b, i + 2)
  ELSE FALSE

Decodable(b) == Utf8Valid(b, 1)

RECURSIVE Utf8From(_, _)
Utf8From(b, i) ==
  IF i > Len(b) THEN <<>>
  ELSE IF b[i] < 128 THEN <<b[i]>> \o Utf8From(b, i + 1)
  ELSE <<(b[i] - 192) * 64 + (b[i + 1] - 128)>> \o Utf8From(b, i + 2)

\* defined where Decodable(b)
Decode(b) == Utf8From(b, 1)

(***************************************************************************)
(* Ordered dicts: sequences of <<key, value>> in insertion order.          *)
(***************************************************************************)
Keys(d) == [i \in 1..Len(d) |-> d[i][1]]

Has(d, k) == \E i \in 1..Len(d) : d[i][1] = k

Get(d, k) == d[CHOOSE i \in 1..Len(d) : d[i][1] = k][2]

\* d[k] = v: a new key is appended, a present key keeps its place
\* a store that adds an item even when the key is there
PutAgain(d, k, v) == Append(d, <<k, v>>)

Put(d, k, v) ==
  IF Has(d, k)
  THEN [i \in 1..Len(d) |-> IF d[i][1] = k THEN <<k, v>> ELSE d[i]]
  ELSE Append(d, <<k, v>>)

(***************************************************************************)
(* The inputs of a run: the files under the target, the configuration      *)
(* documents a configuration file may hold, the outcomes of a linter       *)
(* process.                                                                *)
(***************************************************************************)
\* runners.py:60: the marker of the file's place in a command template
Marker == <<"%", "f", "i", "l", "e", "_", "p", "a", "t", "h", "%">>

\* the paths os.walk may yield: one C file, two python files
Paths == { <<"a", ".", "c">>, <<"m", ".", "p", "y">>, <<"n", ".", "p", "y">> }

FileSets == {F \in SUBSET Paths : Cardinality(F) <= MaxFiles}

LinterNames == {"l1", "l2"}

LinterLists == SeqsUpTo(LinterNames, MaxLinters)

\* the include patterns of a language
Include(l) ==
  IF l = "c" THEN << <<"*", ".", "c">> >> ELSE << <<"*", ".", "p", "y">> >>

\* the include patterns a configuration may list
IncludePatterns ==
  { <<"*", ".", "c">>, <<"*", ".", "p", "y">>, <<"m", ".", "*">>,
    <<"[", "!", "m", "]", ".", "?", "*">> }

\* a langs entry with at most MaxPatterns patterns, or without include
PatternConfs ==
  { [include |-> inc, linters |-> <<"l1">>] :
      inc \in SeqsUpTo(IncludePatterns, MaxPatterns) }
    \cup { [linters |-> <<"l1">>] }

\* the tokens of a command template: plain, the marker, the marker inside
\* a token, twice in a token, overlapping itself, and a part of it
Tokens ==
  { <<"x">>,
    Marker,
    <<"-", "o">> \o Marker,
    Marker \o <<":">> \o Marker,
    Marker \o <<"f", "i", "l", "e", "_", "p", "a", "t", "h", "%">>,
    <<"%", "f", "i", "l", "e", "%">> }

\* a linters entry with at most MaxFlags flags, or without flags
TemplateConfs ==
  { [cmd |-> c, flags |-> fl] :
      c \in Tokens, fl \in SeqsUpTo(Tokens, MaxFlags) }
    \cup { [cmd |-> c] : c \in Tokens }

\* a langs entry with or without its include and linters keys
LangConfs(l) ==
  { [k \in ks |-> IF k = "include" THEN Include(l) ELSE ls] :
      ks \in SUBSET {"include", "linters"}, ls \in LinterLists }

\* the langs entry of python: one linter, or no linters key
PyConfs ==
  { [include |-> Include("py"), linters |-> <<"l1">>],
    [include |-> Include("py")] }

LangsSections ==
  { [l \in D |-> IF l = "c" THEN x ELSE y] :
      D \in SUBSET {"c", "py"}, x \in LangConfs("c"), y \in PyConfs }

\* a linters entry: l1 is a bare command, l2 has a flag holding the marker
\* and a runner override
L1Conf == [cmd |-> <<"l", "1">>]

L2Conf == [cmd |-> <<"l", "2">>, flags |-> <<Marker>>, runner |-> "l1"]

L2NoCmd == [flags |-> <<Marker>>]

LinterSections ==
  { [n \in {"l1"} |-> L1Conf],
    [n \in {"l1", "l2"} |-> IF n = "l1" THEN L1Conf ELSE L2Conf],
    [n \in {"l1", "l2"} |-> IF n = "l1" THEN L1Conf ELSE L2NoCmd] }

\* the documents yaml.safe_load may return for a configuration file
Docs ==
  { [k \in ks |-> IF k = "langs" THEN L ELSE S] :
      ks \in SUBSET {"langs", "linters"}, L \in LangsSections,
      S \in LinterSections }

\* (returncode, stdout, stderr) of a process that has exited: success with
\* a message line, failure without output, failure with a message line and
\* an error text, failure with bytes that are not UTF-8
Outcomes ==
  { <<0, <<109, 10>>, <<>>>>,
    <<1, <<>>, <<>>>>,
    <<1, <<109, 10>>, <<101>>>>,
    <<1, <<255>>, <<101>>>> }

\* a parsed line of an ignore file: include is "True" (the files it matches
\* are ignored), "False" (a "!" line: they are kept) or "None" (a comment or
\* blank line); files is what the pattern's regex matches among all paths
MatchSets ==
  { {}, {<<"a", ".", "c">>}, {<<"m", ".", "p", "y">>, <<"n", ".", "p", "y">>},
    Paths }

IgnoreRules == [include : {"True", "False", "None"}, files : MatchSets]

\* the ignore files of at most MaxRules lines
IgnoreFiles == SeqsUpTo(IgnoreRules, MaxRules)

\* pkg_resources.resource_filename(__project__, __conf_file__)
DefaultConfPath == "site-packages/autolint/.autolint.yml"

\* os.path.expanduser: a leading "~" becomes the home directory
ExpandUser(path) ==
  CASE path = "~" -> "/home"
    [] path = "~/conf" -> "/home/conf"
    [] OTHER -> path

\* os.path.join
Join(a, b) == a \o "/" \o b

\* what yaml.safe_load cannot parse
Malformed == [malformed |-> TRUE]

\* the command lines argparse accepts; --no-print and --pretty-print
\* exclude each other
CommandLines ==
  { a \in [target : {"target", "nodir", "~"},
           configuration : {"None", "conf", "~/conf", "noconf"},
           ignore : {"None", "ignore", "noignore"},
           get_default_conf : BOOLEAN,
           no_ignore : BOOLEAN,
           no_print : BOOLEAN,
           pretty_print : BOOLEAN] : ~(a.no_print /\ a.pretty_print) }

\* the files that may or may not exist
OptionalFiles ==
  { Join("target", ".autolint.yml"), Join("target", ".lintignore"),
    DefaultConfPath }

\* the ignore files met in a run
RunPathSpecs ==
  { <<>>, << [include |-> "True", files |-> {<<"a", ".", "c">>}] >> }

(***************************************************************************)
(* State.                                                                  *)
(***************************************************************************)
VARIABLES
  pc,                 \* the statement about to run
  disk,               \* the directories and files that exist, and what
                      \* the configuration files hold
  spec_patterns,      \* spec.patterns: the parsed lines of the ignore file
  args,               \* main: the parsed command line
  init,               \* the arguments main gives AutoLint(...)
  target,             \* self.target
  configuration,      \* self.configuration
  ignore_file,        \* self.ignore_file
  configuration_dict, \* self.configuration_dict
  pretty_print,       \* run_linter's arguments
  print_all,
  walked,             \* whether os.walk has gone through the target
  all_files,          \* run_linter's locals
  to_lint_files,
  classified_files,
  lint,               \* the frame of __lint
  exe,                \* the frame of ByFileRunner._execute
  results,            \* run_linter: <<>> until __lint has returned
  return_code,
  error,              \* the exception raised, if any
  sys_stdout,         \* what has been written to sys.stdout
  sys_stderr,
  registry,           \* Runner._runners: the names looked up or registered
  spawned,            \* every subprocess.Popen call made so far
  waited,             \* the result of every process that has exited, in order
  called,             \* the arguments of every call of the callback, in order
  exit_status         \* the status the process exits with

vars ==
  <<pc, disk, spec_patterns, args, init, target, configuration,
    ignore_file, configuration_dict, pretty_print, print_all, walked,
    all_files, to_lint_files, classified_files, lint, exe, results,
    return_code, error, sys_stdout, sys_stderr, registry, spawned, waited,
    called, exit_status>>

\* the attributes of self, and the disk they are read from
self_vars ==
  <<disk, spec_patterns, target, configuration, ignore_file,
    configuration_dict>>

arg_vars == <<args, init, pretty_print, print_all>>

file_vars == <<walked, all_files, to_lint_files, classified_files>>

out_vars == <<sys_stdout, sys_stderr>>

NoArgs == [none |-> TRUE]

NoInit == [none |-> TRUE]

NoDict == [none |-> TRUE]

\* at: the language and the place in its linters list __lint had reached
NoWhere == [lang |-> "", j |-> 0]

NoError == [type |-> "", arg |-> <<>>, at |-> NoWhere]

Raise(type, arg) == [type |-> type, arg |-> arg, at |-> NoWhere]

\* no frame of __lint: before the call, and after it returned or raised
NoLint == [ret |-> <<>>, i |-> 0, lang |-> "", linters |-> <<>>, j |-> 0]

\* no frame of _execute
NoExe ==
  [cmd |-> <<>>, need_replace |-> FALSE, files |-> <<>>, n |-> 0,
   command |-> <<>>, result |-> <<>>, ret |-> <<>>]

(***************************************************************************)
(* AutoLint.__remove_ignored_files: the rules are applied in file order.   *)
(***************************************************************************)
RECURSIVE ApplyPatterns(_, _, _, _)
ApplyPatterns(files, patterns, k, return_files) ==
  IF k > Len(patterns) THEN return_files
  ELSE LET p == patterns[k]
           result_files == files \cap p.files
       IN ApplyPatterns(files, patterns, k + 1,
            IF p.include = "None" THEN return_files
            ELSE IF p.include = "True" THEN return_files \ result_files
            ELSE return_files \cup result_files)

\* a filter that removes what any line ignores, whatever comes after it
RemoveIgnoredFilesUnordered(files, patterns) ==
  files \ UNION {patterns[k].files :
                   k \in {n \in 1..Len(patterns) : patterns[n].include = "True"}}

RemoveIgnoredFiles(files, patterns) == ApplyPatterns(files, patterns, 1, files)

(***************************************************************************)
(* AutoLint.__classify_files.  The result is [key, ret]: key is the key    *)
(* whose lookup raised KeyError ("" when none did), ret the ordered dict   *)
(* language -> set of files.                                               *)
(***************************************************************************)
\* a match against the first pattern only
UpdateMatchesFirstPattern(files, include, k, acc) ==
  {f \in files : include # <<>> /\ Fnmatch(f, include[1])}

RECURSIVE UpdateMatches(_, _, _, _)
UpdateMatches(files, include, k, acc) ==
  IF k > Len(include) THEN acc
  ELSE UpdateMatches(files, include, k + 1,
         acc \cup {f \in files : Fnmatch(f, include[k])})

RECURSIVE ClassifyFrom(_, _, _, _, _)
ClassifyFrom(files, langs, items, i, ret) ==
  IF i > Len(items) THEN [key |-> "", ret |-> ret]
  ELSE LET conf == langs[items[i]]
       IN IF "include" \notin DOMAIN conf
          THEN [key |-> "include", ret |-> <<>>]
          ELSE LET matched == UpdateMatches(files, conf.include, 1, {})
               IN ClassifyFrom(files, langs, items, i + 1,
                    IF matched = {} THEN ret
                    ELSE Append(ret, <<items[i], matched>>))

\* a classification that looks up the keys only when there are files
ClassifyFilesLazy(files, conf_dict, items) ==
  IF files = {} THEN [key |-> "", ret |-> <<>>]
  ELSE IF "langs" \notin DOMAIN conf_dict
  THEN [key |-> "langs", ret |-> <<>>]
  ELSE ClassifyFrom(files, conf_dict.langs, items, 1, <<>>)

\* items: the order in which the langs dict is iterated
ClassifyFiles(files, conf_dict, items) ==
  IF "langs" \notin DOMAIN conf_dict
  THEN [key |-> "langs", ret |-> <<>>]
  ELSE ClassifyFrom(files, conf_dict.langs, items, 1, <<>>)

(***************************************************************************)
(* ByFileRunner.run and _execute: the command template and the command of  *)
(* one file.                                                               *)
(***************************************************************************)
\* run: [cmd] + flags
Template(linter_conf) ==
  <<linter_conf.cmd>> \o
    (IF "flags" \in DOMAIN linter_conf THEN linter_conf.flags ELSE <<>>)

\* _execute: whether some token holds the marker
NeedReplace(cmd) == \E k \in 1..Len(cmd) : Contains(cmd[k], Marker)

\* a replacement that spares the first token of the template
CommandFlagsOnly(cmd, need_replace, f) ==
  IF need_replace
  THEN [k \in 1..Len(cmd) |->
          IF k = 1 THEN cmd[k] ELSE StrReplace(cmd[k], Marker, f)]
  ELSE Append(cmd, f)

\* _execute: the argv of the process of file f
Command(cmd, need_replace, f) ==
  IF need_replace
  THEN [k \in 1..Len(cmd) |-> StrReplace(cmd[k], Marker, f)]
  ELSE Append(cmd, f)

(***************************************************************************)
(* Runner.new_runner: _runners is a defaultdict whose missing keys give    *)
(* ByFileRunner (and are stored by the lookup).                            *)
(***************************************************************************)
NewRunner(name) ==
  IF Has(registry, name) THEN Get(registry, name) ELSE "ByFileRunner"

\* a lookup by the linter's name whatever its configuration says
RunnerNameOfLinter(linter, linter_conf) == linter

\* __lint, lines 310-313: the name given to new_runner
RunnerName(linter, linter_conf) ==
  IF "runner" \in DOMAIN linter_conf THEN linter_conf.runner ELSE linter

(***************************************************************************)
(* The result tree: language -> linter -> file -> (rc, stdout, stderr),    *)
(* each level an ordered dict.                                             *)
(***************************************************************************)
\* the (language, linter, file, result) entries of a tree in iteration order
RECURSIVE FlatFiles(_, _, _, _)
FlatFiles(lang, linter, d2, k) ==
  IF k > Len(d2) THEN <<>>
  ELSE << [lang |-> lang, linter |-> linter, file |-> d2[k][1],
           result |-> d2[k][2]] >> \o FlatFiles(lang, linter, d2, k + 1)

RECURSIVE FlatLinters(_, _, _)
FlatLinters(lang, d1, j) ==
  IF j > Len(d1) THEN <<>>
  ELSE FlatFiles(lang, d1[j][1], d1[j][2], 1) \o FlatLinters(lang, d1, j + 1)

RECURSIVE FlatLangs(_, _)
FlatLangs(tree, i) ==
  IF i > Len(tree) THEN <<>>
  ELSE FlatLinters(tree[i][1], tree[i][2], 1) \o FlatLangs(tree, i + 1)

Entries(tree) == FlatLangs(tree, 1)

\* run_linter's scan of the tree (print_all and silent modes)
AnyFailed(tree) ==
  \E i \in 1..Len(tree) : \E j \in 1..Len(tree[i][2]) :
    \E k \in 1..Len(tree[i][2][j][2]) : tree[i][2][j][2][k][2][1] # 0

(***************************************************************************)
(* AutoLint.print_helper and AutoLint.__pretty_print.  A printed line is a *)
(* tuple whose first element names its kind.  The result is                *)
(* [lines, total, failed, raised]: raised when a decode raised             *)
(* UnicodeDecodeError, lines being what was printed before it.             *)
(***************************************************************************)
\* text.replace('\n', '\n\t\t\t') on code points
Indent(text) == StrReplace(text, <<10>>, <<10, 9, 9, 9>>)

\* the line print_helper prints from the texts it decodes (chunks)
HelperLine(filename, chunks) ==
  IF \A k \in 1..Len(chunks) : Decodable(chunks[k])
  THEN [raised |-> FALSE,
        lines |-> << <<"file", filename,
                       [k \in 1..Len(chunks) |-> Indent(Decode(chunks[k]))]>> >>]
  ELSE [raised |-> TRUE, lines |-> <<>>]

print_helper(filename, stdout, stderr) ==
  IF stdout # <<>> /\ stderr # <<>> THEN HelperLine(filename, <<stdout, stderr>>)
  ELSE IF stdout # <<>> THEN HelperLine(filename, <<stdout>>)
  ELSE IF stderr # <<>> THEN HelperLine(filename, <<stderr>>)
  ELSE [raised |-> FALSE, lines |-> <<>>]

\* __pretty_print's loop body for one file, h being print_helper's result
PrettyFileStep(acc, filename, result, h) ==
  IF result[1] # 0
  THEN [lines |-> acc.lines \o h.lines, total |-> acc.total + 1,
        failed |-> acc.failed + 1, raised |-> h.raised]
  ELSE [lines |-> Append(acc.lines, <<"file", filename, <<>> >>),
        total |-> acc.total + 1, failed |-> acc.failed, raised |-> FALSE]

\* the loop over the files of one linter; a is the value of acc, computed
\* once per iteration
RECURSIVE PrettyFiles(_, _, _)
PrettyFiles(d2, k, acc) ==
  CHOOSE r \in
    { IF k > Len(d2) \/ a.raised THEN a
      ELSE PrettyFiles(d2, k + 1,
             PrettyFileStep(a, d2[k][1], d2[k][2],
                            print_helper(d2[k][1], d2[k][2][2], d2[k][2][3])))
      : a \in {acc} } : TRUE

\* the end of an outer loop's body: r is what the inner loop counted and
\* printed, the subtotal line is printed when the dict has several keys
PrettyGroupStep(acc, kind, name, several, r) ==
  CHOOSE g \in
    { [lines |-> IF several /\ ~v.raised
                 THEN Append(v.lines, <<kind, name, v.total, v.failed>>)
                 ELSE v.lines,
       total |-> acc.total + v.total, failed |-> acc.failed + v.failed,
       raised |-> v.raised] : v \in {r} } : TRUE

PrettyStart(lines) ==
  [lines |-> lines, total |-> 0, failed |-> 0, raised |-> FALSE]

RECURSIVE PrettyLinters(_, _, _)
PrettyLinters(d1, j, acc) ==
  CHOOSE r \in
    { IF j > Len(d1) \/ a.raised THEN a
      ELSE PrettyLinters(d1, j + 1,
             PrettyGroupStep(a, "linter_total", d1[j][1], Len(d1) > 1,
               PrettyFiles(d1[j][2], 1,
                 PrettyStart(Append(a.lines, <<"linter", d1[j][1]>>)))))
      : a \in {acc} } : TRUE

RECURSIVE PrettyLangs(_, _, _)
PrettyLangs(tree, i, acc) ==
  CHOOSE r \in
    { IF i > Len(tree) \/ a.raised THEN a
      ELSE PrettyLangs(tree, i + 1,
             PrettyGroupStep(a, "lang_total", tree[i][1], Len(tree) > 1,
               PrettyLinters(tree[i][2], 1,
                 PrettyStart(Append(a.lines, <<"lang", tree[i][1]>>)))))
      : a \in {acc} } : TRUE

PrettyTotal(r) ==
  IF r.raised THEN r
  ELSE [r EXCEPT !.lines = Append(r.lines, <<"total", r.total, r.failed>>)]

PrettyPrint(tree) == PrettyTotal(PrettyLangs(tree, 1, PrettyStart(<<>>)))

(***************************************************************************)
(* run_linter, line by line.                                               *)
(***************************************************************************)
\* __get_all_files: os.walk of the target
GetAllFiles ==
  /\ pc = "run_linter"
  /\ walked' = TRUE
  /\ \E F \in FileSets : all_files' = F
  /\ pc' = "filter"
  /\ UNCHANGED <<self_vars, arg_vars, to_lint_files, classified_files, lint,
                 exe, results, return_code, error, out_vars, registry,
                 spawned, waited, called, exit_status>>

\* __remove_ignored_files
RemoveIgnored ==
  /\ pc = "filter"
  /\ IF ignore_file = "None"
     THEN to_lint_files' = all_files
     ELSE to_lint_files' = RemoveIgnoredFiles(all_files, spec_patterns)
  /\ pc' = "classify"
  /\ UNCHANGED <<self_vars, arg_vars, walked, all_files, classified_files, lint,
                 exe,
                 results, return_code, error, out_vars, registry, spawned,
                 waited, called, exit_status>>

\* __classify_files; then __lint is entered: ret = {}, lang = ''
Classify ==
  /\ pc = "classify"
  /\ \E items \in Perms(IF "langs" \in DOMAIN configuration_dict
                        THEN DOMAIN configuration_dict.langs ELSE {}) :
       LET c == ClassifyFiles(to_lint_files, configuration_dict, items)
       IN IF c.key # ""
          THEN /\ pc' = "raised"
               /\ error' = Raise("AutoLintConfError",
                                 <<"Configuration file, key not found", c.key>>)
               /\ UNCHANGED <<classified_files, lint>>
          ELSE /\ pc' = "lint"
               /\ classified_files' = c.ret
               /\ lint' = [NoLint EXCEPT !.i = 1]
               /\ UNCHANGED error
  /\ UNCHANGED <<self_vars, arg_vars, walked, all_files, to_lint_files, exe,
                 results,
                 return_code, out_vars, registry, spawned, waited, called, exit_status>>

\* a visit of the linters list from its end
LinterAtReversed(linters, j) == linters[Len(linters) + 1 - j]

\* __lint, "for linter in linters": the linter visited at step j
LinterAt(linters, j) == linters[j]

\* a store that replaces the dict of the language by the one linter
StoreLinterOverwrite(ret, l, linter, d2) == Put(ret, l, <<<<linter, d2>>>>)

\* __lint, "ret[lang][linter] = runner.run(...)"
StoreLinter(ret, l, linter, d2) == Put(ret, l, Put(Get(ret, l), linter, d2))

\* an except clause that swallows the KeyError
LintKeyErrorSwallowed(key, l) ==
  [raises |-> FALSE, type |-> "", arg |-> <<>>]

\* __lint, "except KeyError as e": the exception raised instead
LintKeyError(key, l) ==
  [raises |-> TRUE, type |-> "AutoLintConfError",
   arg |-> IF key = "linters" THEN <<"Linter not specified for", l>>
           ELSE <<"Missing at configuration", key>>]

\* the KeyError of a lookup caught in __lint, raised at language l, step j,
\* ret being the tree so far; past the except clause __lint returns ret
ExceptKeyError(key, l, j, ret) ==
  LET h == LintKeyError(key, l)
  IN /\ lint' = NoLint
     /\ IF h.raises
        THEN /\ pc' = "raised"
             /\ error' = [type |-> h.type, arg |-> h.arg,
                          at |-> [lang |-> l, j |-> j]]
             /\ UNCHANGED results
        ELSE /\ pc' = "report"
             /\ results' = <<ret>>
             /\ UNCHANGED error

\* the key whose lookup raises KeyError while linter is set up (line 309,
\* then runners.py:93), or ""
LinterKeyError(conf_dict, linter) ==
  IF "linters" \notin DOMAIN conf_dict THEN "linters"
  ELSE IF linter \notin DOMAIN conf_dict.linters THEN linter
  ELSE IF "cmd" \notin DOMAIN conf_dict.linters[linter] THEN "cmd"
  ELSE ""

\* __lint: the next language of files.items(), or the return of ret
LintLang ==
  /\ pc = "lint"
  /\ IF lint.i > Len(classified_files)
     THEN /\ results' = <<lint.ret>>
          /\ lint' = NoLint
          /\ pc' = "report"
          /\ UNCHANGED error
     ELSE LET l == classified_files[lint.i][1]
              ret == Put(lint.ret, l, <<>>)
              conf == configuration_dict.langs[l]
          IN IF "linters" \notin DOMAIN conf
             THEN ExceptKeyError("linters", l, 0, ret)
             ELSE /\ lint' = [lint EXCEPT !.ret = ret, !.lang = l,
                                          !.linters = conf.linters, !.j = 1]
                  /\ pc' = "linter"
                  /\ UNCHANGED <<results, error>>
  /\ UNCHANGED <<self_vars, arg_vars, file_vars, exe, return_code, out_vars,
                 registry, spawned, waited, called, exit_status>>

\* __lint: the next linter of the language: its configuration, its runner,
\* runner.run up to the loop of _execute
LintLinter ==
  /\ pc = "linter"
  /\ IF lint.j > Len(lint.linters)
     THEN /\ lint' = [lint EXCEPT !.i = lint.i + 1]
          /\ pc' = "lint"
          /\ UNCHANGED <<exe, results, error, registry>>
     ELSE LET linter == LinterAt(lint.linters, lint.j)
              key == LinterKeyError(configuration_dict, linter)
          IN /\ IF key \in {"linters", linter}
                THEN UNCHANGED registry
                ELSE LET name == RunnerName(linter, configuration_dict.linters[linter])
                     IN registry' = Put(registry, name, NewRunner(name))
             /\ IF key # ""
                THEN /\ ExceptKeyError(key, lint.lang, lint.j, lint.ret)
                     /\ UNCHANGED exe
                ELSE LET cmd == Template(configuration_dict.linters[linter])
                     IN /\ \E files \in Perms(classified_files[lint.i][2]) :
                             exe' = [NoExe EXCEPT
                                      !.cmd = cmd,
                                      !.need_replace = NeedReplace(cmd),
                                      !.files = files, !.n = 1]
                        /\ pc' = "execute"
                        /\ UNCHANGED <<lint, results, error>>
  /\ UNCHANGED <<self_vars, arg_vars, file_vars, return_code, out_vars,
                 spawned, waited, called, exit_status>>

\* _execute: the command of the next file and its Popen, or the return of
\* the ordered dict, stored by __lint under ret[lang][linter]
Execute ==
  /\ pc = "execute"
  /\ IF exe.n > Len(exe.files)
     THEN /\ lint' = [lint EXCEPT
                       !.ret = StoreLinter(lint.ret, lint.lang,
                                 LinterAt(lint.linters, lint.j), exe.ret),
                       !.j = lint.j + 1]
          /\ exe' = NoExe
          /\ pc' = "linter"
          /\ UNCHANGED spawned
     ELSE LET f == exe.files[exe.n]
              command == Command(exe.cmd, exe.need_replace, f)
          IN /\ exe' = [exe EXCEPT !.command = command]
             /\ spawned' = Append(spawned,
                  [lang |-> lint.lang, j |-> lint.j,
                   linter |-> LinterAt(lint.linters, lint.j), file |-> f,
                   command |-> command])
             /\ pc' = "communicate"
             /\ UNCHANGED lint
  /\ UNCHANGED <<self_vars, arg_vars, file_vars, results, return_code, error,
                 out_vars, registry, waited, called, exit_status>>

\* _execute: Popen raises OSError (the command cannot be started); nothing
\* in __lint or run_linter catches it
PopenFails ==
  /\ pc = "execute"
  /\ exe.n <= Len(exe.files)
  /\ pc' = "raised"
  /\ error' = Raise("OSError", <<"Popen">>)
  /\ lint' = NoLint
  /\ exe' = NoExe
  /\ UNCHANGED <<self_vars, arg_vars, file_vars, results, return_code,
                 out_vars, registry, spawned, waited, called, exit_status>>

\* a callback whatever print_all is
CbAlways(p) == "print_all_fx"

\* run_linter, "self.print_all_fx if print_all else None": the callback
\* __lint passes to runner.run
Cb(p) == IF p THEN "print_all_fx" ELSE "None"

\* a poll of the process that does not wait for its exit
CommunicateWithoutWaiting ==
  /\ pc = "communicate"
  /\ exe' = [exe EXCEPT !.result = <<0, <<>>, <<>>>>]
  /\ pc' = "result"
  /\ UNCHANGED <<self_vars, arg_vars, file_vars, lint, results, return_code,
                 error, out_vars, registry, spawned, waited, called,
                 exit_status>>

\* a wait that gives up on the process
CommunicateOrTimeout ==
  /\ pc = "communicate"
  /\ \/ \E o \in Outcomes :
          /\ exe' = [exe EXCEPT !.result = o]
          /\ waited' = Append(waited, o)
          /\ pc' = "result"
          /\ UNCHANGED <<lint, error>>
     \/ /\ pc' = "raised"
        /\ error' = Raise("TimeoutExpired", <<"communicate">>)
        /\ lint' = NoLint
        /\ exe' = NoExe
        /\ UNCHANGED waited
  /\ UNCHANGED <<self_vars, arg_vars, file_vars, results, return_code,
                 out_vars, registry, spawned, called, exit_status>>

\* p.communicate() returns once the process has exited
Communicate ==
  /\ pc = "communicate"
  /\ \E o \in Outcomes :
       /\ exe' = [exe EXCEPT !.result = o]
       /\ waited' = Append(waited, o)
  /\ pc' = "result"
  /\ UNCHANGED <<self_vars, arg_vars, file_vars, lint, results, return_code,
                 error, out_vars, registry, spawned, called, exit_status>>

\* cb(*result) with cb = print_all_fx
Callback ==
  /\ pc = "result"
  /\ Cb(print_all) # "None"
  /\ called' = Append(called, exe.result)
  /\ IF ~Decodable(exe.result[2])
     THEN /\ pc' = "raised"
          /\ error' = Raise("UnicodeDecodeError", <<"stdout">>)
          /\ lint' = NoLint
          /\ exe' = NoExe
          /\ UNCHANGED out_vars
     ELSE /\ sys_stdout' = Append(sys_stdout, <<"write", Decode(exe.result[2])>>)
          /\ IF ~Decodable(exe.result[3])
             THEN /\ pc' = "raised"
                  /\ error' = Raise("UnicodeDecodeError", <<"stderr">>)
                  /\ lint' = NoLint
                  /\ exe' = NoExe
                  /\ UNCHANGED sys_stderr
             ELSE /\ sys_stderr' = Append(sys_stderr, <<"write", Decode(exe.result[3])>>)
                  /\ pc' = "record"
                  /\ UNCHANGED <<lint, exe, error>>
  /\ UNCHANGED <<self_vars, arg_vars, file_vars, results, return_code,
                 registry, spawned, waited, exit_status>>

\* ret[f] = result
Record ==
  /\ pc = "record" \/ (pc = "result" /\ Cb(print_all) = "None")
  /\ exe' = [exe EXCEPT !.ret = Put(exe.ret, exe.files[exe.n], exe.result),
                        !.n = exe.n + 1]
  /\ pc' = "execute"
  /\ UNCHANGED <<self_vars, arg_vars, file_vars, lint, results, return_code,
                 error, out_vars, registry, spawned, waited, called, exit_status>>

\* run_linter, "if print_all": the scan of the tree
ReportPrintAll ==
  /\ pc = "report"
  /\ print_all
  /\ return_code' = IF AnyFailed(results[1]) THEN 1 ELSE 0
  /\ pc' = "returned"
  /\ UNCHANGED <<self_vars, arg_vars, file_vars, lint, exe, results, error,
                 out_vars, registry, spawned, waited, called, exit_status>>

\* run_linter, "elif pretty_print"
ReportPrettyPrint ==
  /\ pc = "report"
  /\ ~print_all /\ pretty_print
  /\ \E r \in {PrettyPrint(results[1])} :
        /\ sys_stdout' = sys_stdout \o r.lines
        /\ IF r.raised
           THEN /\ pc' = "raised"
                /\ error' = Raise("UnicodeDecodeError", <<"print_helper">>)
                /\ UNCHANGED return_code
           ELSE /\ pc' = "returned"
                /\ return_code' = IF r.failed > 0 THEN 1 ELSE 0
                /\ UNCHANGED error
  /\ UNCHANGED <<self_vars, arg_vars, file_vars, lint, exe, results,
                 sys_stderr, registry, spawned, waited, called, exit_status>>

\* run_linter, "else", on python 2: dict.itervalues exists
ReportSilentPy2 ==
  /\ pc = "report"
  /\ ~print_all /\ ~pretty_print
  /\ return_code' = IF AnyFailed(results[1]) THEN 1 ELSE 0
  /\ pc' = "returned"
  /\ UNCHANGED <<self_vars, arg_vars, file_vars, lint, exe, results, error,
                 out_vars, registry, spawned, waited, called, exit_status>>

\* run_linter, "else", on python 3: a dict has no itervalues
ReportSilentPy3 ==
  /\ pc = "report"
  /\ ~print_all /\ ~pretty_print
  /\ pc' = "raised"
  /\ error' = Raise("AttributeError", <<"itervalues">>)
  /\ UNCHANGED <<self_vars, arg_vars, file_vars, lint, exe, results,
                 return_code, out_vars, registry, spawned, waited, called, exit_status>>

\* sys.exit(main()): the status is main's value, or 1 after an exception
\* that nothing caught
Exit ==
  /\ pc \in {"returned", "raised"}
  /\ exit_status' = IF pc = "returned" THEN return_code ELSE 1
  /\ pc' = "exited"
  /\ UNCHANGED <<self_vars, arg_vars, file_vars, lint, exe, results,
                 return_code, error, out_vars, registry, spawned, waited, called>>

(***************************************************************************)
(* The run of a constructed AutoLint: run_linter is about to be called.    *)
(***************************************************************************)
\* a path that exists and is a regular file
IsFileAlways(d, path) == TRUE

\* os.path.isfile
IsFile(d, path) == path \in d.isfile

\* os.path.isdir
IsDir(d, path) == path \in d.isdir

\* main, "--get-default-conf": the default configuration is printed and
\* main returns None; open raises when the file is not there
MainGetDefaultConf ==
  /\ pc = "main"
  /\ args.get_default_conf
  /\ IF DefaultConfPath \in disk.isfile
     THEN /\ sys_stdout' = Append(sys_stdout, <<"print", disk.yaml>>)
          /\ pc' = "returned"
          /\ UNCHANGED error
     ELSE /\ pc' = "raised"
          /\ error' = Raise("IOError", <<"open", DefaultConfPath>>)
          /\ UNCHANGED sys_stdout
  /\ UNCHANGED <<self_vars, arg_vars, file_vars, lint, exe, results,
                 return_code, sys_stderr, registry, spawned, waited, called,
                 exit_status>>

\* main: the ignore file and the configuration given to AutoLint(...)
Main ==
  /\ pc = "main"
  /\ ~args.get_default_conf
  /\ init' =
       [target |-> args.target,
        configuration |->
          IF args.configuration # "None" THEN args.configuration
          ELSE IF IsFile(disk, Join(args.target, ".autolint.yml"))
               THEN Join(args.target, ".autolint.yml")
               ELSE "None",
        ignore_file |->
          IF args.no_ignore THEN "None"
          ELSE IF args.ignore = "None"
               THEN IF IsFile(disk, Join(args.target, ".lintignore"))
                    THEN Join(args.target, ".lintignore")
                    ELSE "None"
               ELSE args.ignore]
  /\ pc' = "init"
  /\ UNCHANGED <<self_vars, args, pretty_print, print_all, file_vars, lint,
                 exe, results, return_code, error, out_vars, registry,
                 spawned, waited, called, exit_status>>

\* __init__, lines 57-63: the target must be a directory
InitTarget ==
  /\ pc = "init"
  /\ configuration' = "None"
  /\ ignore_file' = "None"
  /\ IF ~IsDir(disk, ExpandUser(init.target))
     THEN /\ pc' = "raised"
          /\ error' = Raise("AutoLintIOError",
                            <<"Expecting a dir but got", init.target>>)
          /\ UNCHANGED target
     ELSE /\ target' = ExpandUser(init.target)
          /\ pc' = "init_configuration"
          /\ UNCHANGED error
  /\ UNCHANGED <<disk, spec_patterns, configuration_dict, arg_vars,
                 file_vars, lint, exe, results, return_code, out_vars,
                 registry, spawned, waited, called, exit_status>>

\* __init__, lines 65-74: a configuration that is given must be a file;
\* one that is not given is the default one
InitConfiguration ==
  /\ pc = "init_configuration"
  /\ IF init.configuration # "None"
     THEN IF ~IsFile(disk, ExpandUser(init.configuration))
          THEN /\ pc' = "raised"
               /\ error' = Raise("AutoLintIOError",
                                 <<"Expecting a file as configuration, but got",
                                   init.configuration>>)
               /\ UNCHANGED configuration
          ELSE /\ configuration' = ExpandUser(init.configuration)
               /\ pc' = "init_ignore_file"
               /\ UNCHANGED error
     ELSE /\ configuration' = DefaultConfPath
          /\ pc' = "init_ignore_file"
          /\ UNCHANGED error
  /\ UNCHANGED <<disk, spec_patterns, target, ignore_file,
                 configuration_dict, arg_vars, file_vars, lint, exe, results,
                 return_code, out_vars, registry, spawned, waited, called,
                 exit_status>>

\* __init__, lines 76-81: an ignore file that is given must be a file
InitIgnoreFile ==
  /\ pc = "init_ignore_file"
  /\ IF init.ignore_file # "None"
     THEN IF ~IsFile(disk, ExpandUser(init.ignore_file))
          THEN /\ pc' = "raised"
               /\ error' = Raise("AutoLintIOError",
                                 <<"Expecting a ignore file, but got",
                                   init.ignore_file>>)
               /\ UNCHANGED ignore_file
          ELSE /\ ignore_file' = ExpandUser(init.ignore_file)
               /\ pc' = "load_configuration"
               /\ UNCHANGED error
     ELSE /\ pc' = "load_configuration"
          /\ UNCHANGED <<ignore_file, error>>
  /\ UNCHANGED <<disk, spec_patterns, target, configuration,
                 configuration_dict, arg_vars, file_vars, lint, exe, results,
                 return_code, out_vars, registry, spawned, waited, called,
                 exit_status>>

\* __load_configuration: open raises when the file is not there,
\* yaml.safe_load when it cannot be parsed
LoadConfiguration ==
  /\ pc = "load_configuration"
  /\ IF configuration \notin disk.isfile
     THEN /\ pc' = "raised"
          /\ error' = Raise("IOError", <<"open", configuration>>)
          /\ UNCHANGED configuration_dict
     ELSE IF disk.yaml = Malformed
     THEN /\ pc' = "raised"
          /\ error' = Raise("YAMLError", <<"safe_load", configuration>>)
          /\ UNCHANGED configuration_dict
     ELSE /\ configuration_dict' = disk.yaml
          /\ pc' = "constructed"
          /\ UNCHANGED error
  /\ UNCHANGED <<disk, spec_patterns, target, configuration, ignore_file,
                 arg_vars, file_vars, lint, exe, results, return_code,
                 out_vars, registry, spawned, waited, called, exit_status>>

\* a print_all that only --no-print turns off
PrintAllUnlessNoPrint(a) == ~a.no_print

\* main, line 403: print_all = not(args.no_print or args.pretty_print)
PrintAll(a) == ~(a.no_print \/ a.pretty_print)

\* main, lines 403-404: run_linter(args.pretty_print, print_all)
CallRunLinter ==
  /\ pc = "constructed"
  /\ pretty_print' = args.pretty_print
  /\ print_all' = PrintAll(args)
  /\ pc' = "run_linter"
  /\ UNCHANGED <<self_vars, args, init, file_vars, lint, exe, results,
                 return_code, error, out_vars, registry, spawned, waited, called,
                 exit_status>>

\* no process has been started, nothing written, nothing raised
Idle ==
  /\ exe = NoExe
  /\ results = <<>>
  /\ return_code = 0
  /\ error = NoError
  /\ sys_stdout = <<>>
  /\ sys_stderr = <<>>
  /\ registry = <<>>
  /\ spawned = <<>>
  /\ waited = <<>>
  /\ called = <<>>
  /\ exit_status = -1

\* nothing has run yet
Fresh ==
  /\ walked = FALSE
  /\ all_files = {}
  /\ to_lint_files = {}
  /\ classified_files = <<>>
  /\ lint = NoLint
  /\ Idle

\* an AutoLint built by a caller and no command line
Constructed ==
  /\ args = NoArgs
  /\ init = NoInit
  /\ target = "target"
  /\ configuration = "conf"
  /\ disk = [isdir |-> {"target"},
             isfile |-> {"conf"} \cup ({ignore_file} \ {"None"}),
             yaml |-> configuration_dict]

\* a constructed AutoLint whose run_linter is about to be called
Init ==
  /\ pc = "run_linter"
  /\ ignore_file \in {"None", "ignore"}
  /\ spec_patterns \in (IF ignore_file = "None" THEN {<<>>} ELSE RunPathSpecs)
  /\ configuration_dict \in Docs
  /\ pretty_print \in BOOLEAN
  /\ print_all \in BOOLEAN
  /\ Constructed
  /\ Fresh

Next ==
  \/ GetAllFiles
  \/ RemoveIgnored
  \/ Classify
  \/ LintLang
  \/ LintLinter
  \/ Execute
  \/ PopenFails
  \/ Communicate
  \/ Callback
  \/ Record
  \/ ReportPrintAll
  \/ ReportPrettyPrint
  \/ ReportSilentPy2
  \/ ReportSilentPy3
  \/ Exit

Spec == Init /\ [][Next]_vars

\* the statements of the program: every step but the exit of a linter
\* process, which is the linter's to take
ProgramStep ==
  \/ GetAllFiles
  \/ RemoveIgnored
  \/ Classify
  \/ LintLang
  \/ LintLinter
  \/ Execute
  \/ PopenFails
  \/ Callback
  \/ Record
  \/ ReportPrintAll
  \/ ReportPrettyPrint
  \/ ReportSilentPy2
  \/ ReportSilentPy3
  \/ Exit

\* the documents that configure both languages when they have a langs
\* section, the first language with two linters or with one linter twice
LiveDocs ==
  { d \in Docs :
      "langs" \in DOMAIN d =>
        /\ DOMAIN d.langs = {"c", "py"}
        /\ "linters" \in DOMAIN d.langs.c =>
              d.langs.c.linters \in {<<"l1", "l2">>, <<"l1", "l1">>} }

InitLive ==
  /\ pc = "run_linter"
  /\ ignore_file \in {"None", "ignore"}
  /\ spec_patterns \in (IF ignore_file = "None" THEN {<<>>} ELSE RunPathSpecs)
  /\ configuration_dict \in LiveDocs
  /\ pretty_print \in BOOLEAN
  /\ print_all \in BOOLEAN
  /\ Constructed
  /\ Fresh

\* the interpreter runs the next statement whenever there is one; nothing
\* is assumed of the linter processes
SpecLive == InitLive /\ [][Next]_vars /\ WF_vars(ProgramStep)

(***************************************************************************)
(* The command line: main builds the AutoLint and calls run_linter.  Every *)
(* configuration file holds the same document.                             *)
(***************************************************************************)
OneLinterDoc ==
  [langs |-> [c |-> [include |-> Include("c"), linters |-> <<"l1">>]],
   linters |-> [l1 |-> L1Conf]]

NoLangsDoc == [linters |-> [l1 |-> L1Conf]]

InitMain ==
  /\ pc = "main"
  /\ args \in CommandLines
  /\ init = NoInit
  /\ \E F \in SUBSET OptionalFiles, doc \in {OneLinterDoc, NoLangsDoc, Malformed} :
       disk = [isdir |-> {"target", "/home"},
               isfile |-> {"conf", "/home/conf", "ignore"} \cup F,
               yaml |-> doc]
  /\ spec_patterns = << [include |-> "True", files |-> {<<"m", ".", "p", "y">>}] >>
  /\ target = "None"
  /\ configuration = "None"
  /\ ignore_file = "None"
  /\ configuration_dict = NoDict
  /\ pretty_print = FALSE
  /\ print_all = FALSE
  /\ Fresh

NextMain ==
  \/ MainGetDefaultConf
  \/ Main
  \/ InitTarget
  \/ InitConfiguration
  \/ InitIgnoreFile
  \/ LoadConfiguration
  \/ CallRunLinter
  \/ Next

SpecMain == InitMain /\ [][NextMain]_vars

\* a run entered from the command line, or by a caller of run_linter with
\* any pretty_print and print_all
InitEntry == Init \/ InitMain

SpecEntry == InitEntry /\ [][NextMain]_vars

(***************************************************************************)
(* __remove_ignored_files on every ignore file of at most MaxRules lines.  *)
(***************************************************************************)
InitIgnore ==
  /\ pc = "filter"
  /\ ignore_file \in {"None", "ignore"}
  /\ spec_patterns \in (IF ignore_file = "None" THEN {<<>>} ELSE IgnoreFiles)
  /\ configuration_dict = OneLinterDoc
  /\ pretty_print = FALSE
  /\ print_all = TRUE
  /\ Constructed
  /\ walked = TRUE
  /\ all_files \in FileSets
  /\ to_lint_files = {}
  /\ classified_files = <<>>
  /\ lint = NoLint
  /\ Idle

NextIgnore == RemoveIgnored

SpecIgnore == InitIgnore /\ [][NextIgnore]_vars

(***************************************************************************)
(* __classify_files on every langs section of at most two languages and    *)
(* MaxPatterns patterns each.                                              *)
(***************************************************************************)
InitClassify ==
  /\ pc = "classify"
  /\ ignore_file = "None"
  /\ spec_patterns = <<>>
  /\ \E D \in SUBSET {"c", "py"} : \E L \in [D -> PatternConfs] :
       configuration_dict = [langs |-> L, linters |-> [l1 |-> L1Conf]]
  /\ pretty_print = FALSE
  /\ print_all = TRUE
  /\ Constructed
  /\ walked = TRUE
  /\ all_files \in FileSets
  /\ to_lint_files = all_files
  /\ classified_files = <<>>
  /\ lint = NoLint
  /\ Idle

NextClassify == Classify

SpecClassify == InitClassify /\ [][NextClassify]_vars

(***************************************************************************)
(* ByFileRunner.run and _execute on every command template of at most      *)
(* MaxFlags flags: __lint is entered with one language and one linter.     *)
(***************************************************************************)
InitCmd ==
  /\ pc = "lint"
  /\ ignore_file = "None"
  /\ spec_patterns = <<>>
  /\ \E conf \in TemplateConfs :
       configuration_dict =
         [langs |-> [c |-> [include |-> << <<"*">> >>, linters |-> <<"l1">>]],
          linters |-> [l1 |-> conf]]
  /\ pretty_print = FALSE
  /\ print_all = FALSE
  /\ Constructed
  /\ walked = TRUE
  /\ all_files \in FileSets \ {{}}
  /\ to_lint_files = all_files
  /\ classified_files = << <<"c", all_files>> >>
  /\ lint = [NoLint EXCEPT !.i = 1]
  /\ Idle

NextCmd ==
  \/ LintLang
  \/ LintLinter
  \/ Execute
  \/ Communicate
  \/ Record

SpecCmd == InitCmd /\ [][NextCmd]_vars

(***************************************************************************)
(* Properties of a run.                                                    *)
(***************************************************************************)
\* the run has ended, by a return or by an exception
Ended == pc \in {"returned", "raised", "exited"}

\* __lint raised its AutoLintConfError at language error.at.lang
DispatchConfError ==
  /\ pc \in {"raised", "exited"}
  /\ error.type = "AutoLintConfError"
  /\ error.at.lang # ""

\* the linter names the linters section defines
DefinedLinters(conf_dict) ==
  IF "linters" \in DOMAIN conf_dict THEN DOMAIN conf_dict.linters ELSE {}

\* the subprocesses spawned for language l, in order
SpawnsOf(l) == SelectSeq(spawned, LAMBDA e : e.lang = l)

\* the place of a language in the classification
PlaceOf(l) == CHOOSE i \in 1..Len(classified_files) : classified_files[i][1] = l

\* the result of the last process run for (l, linter, f)
LastResult(l, linter, f) ==
  LET ks == {k \in 1..Len(waited) :
               /\ spawned[k].lang = l
               /\ spawned[k].linter = linter
               /\ spawned[k].file = f}
  IN waited[CHOOSE k \in ks : \A m \in ks : m <= k]

\* C1: in every reporting mode, once __lint has produced the result tree,
\* run_linter returns 1 if some (exit_code, stdout, stderr) of the tree has
\* exit_code # 0 and 0 otherwise, and the process exits with that code.
C1_SummaryCode ==
  (pc = "exited" /\ results # <<>>) =>
    LET es == Entries(results[1])
        expected == IF \E k \in 1..Len(es) : es[k].result[1] # 0 THEN 1 ELSE 0
    IN /\ error = NoError
       /\ return_code = expected
       /\ exit_status = expected

\* the files an include list matches
Matching(files, include) ==
  {f \in files : \E k \in 1..Len(include) : Fnmatch(f, include[k])}

\* C2: __classify_files returns a mapping without empty sets in which the
\* set of a language is exactly the files matching one of its include
\* patterns at least; a language is absent exactly when no file matches;
\* it returns whenever every language has its include key.
C2_ClassifyMapping ==
  (pc # "classify") =>
    LET langs == configuration_dict.langs
        cf == classified_files
    IN IF \E l \in DOMAIN langs : "include" \notin DOMAIN langs[l]
       THEN pc = "raised"
       ELSE /\ pc = "lint"
            /\ \A i, j \in 1..Len(cf) : cf[i][1] = cf[j][1] => i = j
            /\ \A i \in 1..Len(cf) : cf[i][1] \in DOMAIN langs /\ cf[i][2] # {}
            /\ \A l \in DOMAIN langs :
                 LET m == Matching(to_lint_files, langs[l].include)
                 IN /\ Has(cf, l) <=> m # {}
                    /\ Has(cf, l) => Get(cf, l) = m

\* C2 witness: a file is under two languages, one of them with two patterns
\* that each bring a file
C2_Witness ==
  /\ pc = "lint"
  /\ Len(classified_files) = 2
  /\ classified_files[1][2] \cap classified_files[2][2] # {}
  /\ \E i \in 1..2 :
       LET inc == configuration_dict.langs[classified_files[i][1]].include
       IN /\ Len(inc) = 2
          /\ Matching(to_lint_files, <<inc[1]>>) # classified_files[i][2]
          /\ Matching(to_lint_files, <<inc[2]>>) # classified_files[i][2]

\* C2 witness of the dropped language: a language none of whose patterns
\* matches is absent from the mapping while another is present
C2_Dropped ==
  /\ pc = "lint"
  /\ Len(classified_files) = 1
  /\ DOMAIN configuration_dict.langs = {"c", "py"}

\* C3: the output of __remove_ignored_files is a subset of the files it is
\* given; a file stays exactly when no line of the ignore file matches it
\* or the last line matching it is a negation; with no ignore file the
\* output is the input.
C3_LastMatchingRuleDecides ==
  (pc = "classify") =>
    /\ to_lint_files \subseteq all_files
    /\ (ignore_file = "None" => to_lint_files = all_files)
    /\ \A f \in all_files :
         LET ms == {k \in 1..Len(spec_patterns) :
                      /\ spec_patterns[k].include # "None"
                      /\ f \in spec_patterns[k].files}
             last == CHOOSE k \in ms : \A m \in ms : m <= k
         IN f \in to_lint_files <=>
              (ms = {} \/ spec_patterns[last].include = "False")

\* C3 witness: a file is ignored by a line and kept by a later negation,
\* another is ignored, negated and ignored again, a third matches no line
C3_Witness ==
  /\ pc = "classify"
  /\ Len(spec_patterns) = 3
  /\ \E f \in to_lint_files :
       /\ f \in spec_patterns[1].files /\ spec_patterns[1].include = "True"
       /\ f \in spec_patterns[2].files /\ spec_patterns[2].include = "False"
  /\ \E f \in all_files \ to_lint_files :
       f \in spec_patterns[2].files /\ f \in spec_patterns[3].files
  /\ to_lint_files # {}

\* C4: the command run for a file is the template [cmd] + flags with every
\* occurrence of the marker in every token replaced by the file and nothing
\* appended when some token holds the marker, and the template followed by
\* the file otherwise; the template stays the same from file to file.
C4_CommandOfFile ==
  /\ \A n \in 1..Len(spawned) :
       LET e == spawned[n]
           conf == configuration_dict.linters[e.linter]
           template == <<conf.cmd>> \o
                         (IF "flags" \in DOMAIN conf THEN conf.flags ELSE <<>>)
       IN IF \E k \in 1..Len(template) : Contains(template[k], Marker)
          THEN /\ Len(e.command) = Len(template)
               /\ \A k \in 1..Len(template) :
                    /\ e.command[k] = StrReplace(template[k], Marker, e.file)
                    /\ ~Contains(e.command[k], Marker)
                    /\ (~Contains(template[k], Marker) =>
                          e.command[k] = template[k])
          ELSE e.command = template \o <<e.file>>
  /\ (pc \in {"execute", "communicate", "result", "record"}) =>
       LET conf == configuration_dict.linters[LinterAt(lint.linters, lint.j)]
       IN exe.cmd = <<conf.cmd>> \o
            (IF "flags" \in DOMAIN conf THEN conf.flags ELSE <<>>)

\* C4 witness: two files have been run with a template whose command token
\* and flag both hold the marker
C4_Witness ==
  /\ Len(spawned) = 2
  /\ spawned[1].file # spawned[2].file
  /\ LET conf == configuration_dict.linters[spawned[1].linter]
     IN /\ Contains(conf.cmd, Marker)
        /\ "flags" \in DOMAIN conf
        /\ conf.flags # <<>>
        /\ Contains(conf.flags[1], Marker \o <<":">> \o Marker)

\* C4 witness of the appended file: no token holds the whole marker
C4_Appended ==
  /\ Len(spawned) = 2
  /\ configuration_dict.linters[spawned[1].linter].cmd =
       <<"%", "f", "i", "l", "e", "%">>
  /\ spawned[2].command[Len(spawned[2].command)] = spawned[2].file

\* C5 as stated: when __lint raises its AutoLintConfError for a language L
\* that has no linters key or whose list names a linter absent from the
\* linters section, no subprocess has been spawned for L.
C5_NoSpawnForLanguage ==
  (DispatchConfError /\ error.arg # <<"Missing at configuration", "cmd">>) =>
    SpawnsOf(error.at.lang) = <<>>

\* C5 amended: nothing is spawned for the absent linter or the linters
\* listed after it; the linters listed before it have each been run once on
\* every file of L, in list order; with no linters key, or with the absent
\* linter first, nothing is spawned for L.
C5_SpawnsBeforeAbsentLinter ==
  (DispatchConfError /\ error.arg # <<"Missing at configuration", "cmd">>) =>
    LET l == error.at.lang
        conf == configuration_dict.langs[l]
        fs == Get(classified_files, l)
        n == Cardinality(fs)
        sp == SpawnsOf(l)
    IN IF "linters" \notin DOMAIN conf THEN sp = <<>>
       ELSE LET absent == {p \in 1..Len(conf.linters) :
                             conf.linters[p] \notin DefinedLinters(configuration_dict)}
                first == CHOOSE p \in absent : \A q \in absent : p <= q
            IN /\ absent # {}
               /\ Len(sp) = (first - 1) * n
               /\ \A k \in 1..Len(sp) :
                    sp[k].linter = conf.linters[((k - 1) \div n) + 1]
               /\ \A p \in 1..(first - 1) :
                    {sp[k].file : k \in ((p - 1) * n + 1)..(p * n)} = fs

\* C5 witness: the absent linter is second in the list and the first linter
\* has been run for L
C5_Witness ==
  /\ DispatchConfError
  /\ error.at.j = 2
  /\ error.arg[1] = "Missing at configuration"
  /\ error.arg[2] # "cmd"
  /\ SpawnsOf(error.at.lang) # <<>>

\* C6 as stated: after a ConfigError raised at some language, the results of
\* the languages dispatched before it remain available.
C6_ResultsKept ==
  (DispatchConfError /\ PlaceOf(error.at.lang) > 1) => results # <<>>

\* the tree holds, for the i-th classified language, exactly its linters and
\* under each exactly its files, each with the result of its last process
CompleteFor(ret, i) ==
  LET l == classified_files[i][1]
      fs == classified_files[i][2]
      linters == configuration_dict.langs[l].linters
  IN /\ Has(ret, l)
     /\ Range(Keys(Get(ret, l))) = Range(linters)
     /\ \A j \in 1..Len(Get(ret, l)) :
          LET linter == Get(ret, l)[j][1]
              d2 == Get(ret, l)[j][2]
          IN /\ Len(d2) = Cardinality(fs)
             /\ Range(Keys(d2)) = fs
             /\ \A k \in 1..Len(d2) :
                  d2[k][2] = LastResult(l, linter, d2[k][1])

\* C6 amended: at the step that raises the ConfigError, the tree __lint has
\* built holds the complete results of every language dispatched before,
\* and the step discards it: run_linter raises and holds no result tree.
C6_ResultsCompleteThenDiscarded ==
  [][(pc \in {"lint", "linter"} /\ pc' = "raised") =>
       /\ \A i \in 1..(lint.i - 1) : CompleteFor(lint.ret, i)
       /\ lint' = NoLint
       /\ results = <<>> /\ results' = <<>>
       /\ error'.type = "AutoLintConfError"]_vars

\* C6 witness: the ConfigError is raised at the second language, after
\* processes have run for the first
C6_Witness ==
  /\ DispatchConfError
  /\ PlaceOf(error.at.lang) = 2
  /\ \E k \in 1..Len(waited) : spawned[k].lang # error.at.lang

\* a language whose linters list names a linter the linters section lacks
Dangling(conf_dict, l) ==
  /\ "linters" \in DOMAIN conf_dict.langs[l]
  /\ \E p \in 1..Len(conf_dict.langs[l].linters) :
       conf_dict.langs[l].linters[p] \notin DefinedLinters(conf_dict)

\* some file to lint matches an include pattern of the language
HasFiles(conf_dict, l, files) ==
  /\ "include" \in DOMAIN conf_dict.langs[l]
  /\ \E f \in files : \E k \in 1..Len(conf_dict.langs[l].include) :
       Fnmatch(f, conf_dict.langs[l].include[k])

\* C7 as stated: with a dangling linter reference in the configuration,
\* run_linter ends with AutoLintConfError, whatever the files are.
C7_DanglingAlwaysConfError ==
  (/\ Ended
   /\ "langs" \in DOMAIN configuration_dict
   /\ \E l \in DOMAIN configuration_dict.langs : Dangling(configuration_dict, l))
  => error.type = "AutoLintConfError"

\* C7 amended: when a language with a dangling reference has at least one
\* file to lint, run_linter never produces a result: it raises
\* AutoLintConfError, unless a linter dispatched earlier could not be
\* started (OSError) or print_all could not decode its output
\* (UnicodeDecodeError); with no linter dispatched earlier it is always
\* AutoLintConfError.
C7_DanglingWithFilesNeverSucceeds ==
  (/\ pc \in {"report", "returned", "raised", "exited"}
   /\ "langs" \in DOMAIN configuration_dict
   /\ \E l \in DOMAIN configuration_dict.langs :
        /\ Dangling(configuration_dict, l)
        /\ HasFiles(configuration_dict, l, to_lint_files))
  => /\ pc \in {"raised", "exited"}
     /\ results = <<>>
     /\ error.type \in {"AutoLintConfError", "OSError", "UnicodeDecodeError"}
     /\ (registry = <<>> => error.type = "AutoLintConfError")

\* C7 witness: the lookup of the dangling name raised the error
C7_Witness ==
  /\ pc = "exited"
  /\ error.type = "AutoLintConfError"
  /\ error.arg[1] = "Missing at configuration"
  /\ error.arg[2] \in LinterNames
  /\ error.arg[2] \notin DefinedLinters(configuration_dict)

\* C8: when the configuration lacks langs, or a language lacks include,
\* classification raises AutoLintConfError naming the missing key, whatever
\* the files are, and no subprocess is spawned in the run.
C8_ClassifyConfError ==
  (/\ pc \notin {"run_linter", "filter", "classify"}
   /\ \/ "langs" \notin DOMAIN configuration_dict
      \/ \E l \in DOMAIN configuration_dict.langs :
           "include" \notin DOMAIN configuration_dict.langs[l])
  => /\ pc \in {"raised", "exited"}
     /\ error.type = "AutoLintConfError"
     /\ error.arg = <<"Configuration file, key not found",
                      IF "langs" \in DOMAIN configuration_dict
                      THEN "include" ELSE "langs">>
     /\ spawned = <<>>
     /\ results = <<>>

\* C8 witness: a language lacks include and there is no file at all
C8_Witness ==
  /\ pc = "exited"
  /\ error.arg = <<"Configuration file, key not found", "include">>
  /\ all_files = {}

\* C9: a process that exits with a nonzero code never aborts the run: the
\* step after its exit goes on to record its result.
C9_NonzeroExitNeverAborts ==
  [][(pc = "result" /\ exe.result[1] # 0) => pc' \in {"record", "execute"}]_vars

\* the constructor has ended, by a return or by an exception
AfterInit ==
  /\ init # NoInit
  /\ pc \notin {"init", "init_configuration", "init_ignore_file",
                 "load_configuration"}

\* C10: AutoLint(target, configuration, ignore_file) raises AutoLintIOError
\* when target is not a directory, when a configuration is given that is
\* not a file, when an ignore file is given that is not a file; the error
\* is raised with no configuration parsed, no walk of the target and no
\* process started; a configuration that is not given is the default one;
\* a constructor that returns has parsed the configuration.
C10_ConstructorChecks ==
  AfterInit =>
    LET bad_target == ExpandUser(init.target) \notin disk.isdir
        bad_configuration ==
          init.configuration # "None" /\
            ExpandUser(init.configuration) \notin disk.isfile
        bad_ignore_file ==
          init.ignore_file # "None" /\
            ExpandUser(init.ignore_file) \notin disk.isfile
    IN /\ (bad_target \/ bad_configuration \/ bad_ignore_file) =>
            /\ pc \in {"raised", "exited"}
            /\ error.type = "AutoLintIOError"
            /\ error.arg[2] = (IF bad_target THEN init.target
                               ELSE IF bad_configuration
                               THEN init.configuration
                               ELSE init.ignore_file)
            /\ configuration_dict = NoDict
            /\ ~walked
            /\ spawned = <<>>
       /\ (~bad_target /\ init.configuration = "None") =>
            configuration = DefaultConfPath
       /\ (~bad_target /\ ~bad_configuration /\ init.configuration # "None") =>
            configuration = ExpandUser(init.configuration)
       /\ (error.type \notin {"AutoLintIOError", "IOError", "YAMLError"}) =>
            /\ configuration_dict = disk.yaml
            /\ configuration_dict # NoDict
            /\ configuration_dict # Malformed

\* C10 witness: the target and the omitted configuration pass, the ignore
\* file given is not a file
C10_Witness ==
  /\ pc = "exited"
  /\ error.type = "AutoLintIOError"
  /\ error.arg = <<"Expecting a ignore file, but got", "noignore">>
  /\ init.configuration = "None"
  /\ configuration = DefaultConfPath
  /\ target = "/home"

\* C10 witness of a constructor that returned
C10_Constructed ==
  /\ pc = "constructed"
  /\ configuration_dict = OneLinterDoc
  /\ configuration = "/home/conf"

\* C11: with a callback, it is called once for each process, with the
\* (returncode, stdout, stderr) of that process, after the process has
\* exited and before the next one is spawned; without a callback nothing is
\* called.
C11_CallbackOncePerFile ==
  /\ (~print_all => called = <<>>)
  /\ print_all =>
       /\ Len(called) <= Len(waited)
       /\ \A k \in 1..Len(called) : called[k] = waited[k]
       /\ (pc = "result" <=> Len(waited) = Len(called) + 1)
       /\ (pc # "result" => Len(waited) = Len(called))
       /\ Len(spawned) <= Len(called) + 1
       /\ (pc = "execute" => Len(spawned) = Len(called))

\* C11 witness: a run with the callback has ended after two processes with
\* different results
C11_Witness ==
  /\ print_all
  /\ pc = "returned"
  /\ Len(called) = 2
  /\ called[1] # called[2]
  /\ spawned[1].file # spawned[2].file

\* C12: at most one linter process is alive: a process is spawned only
\* when every process spawned before has exited and its output has been
\* read, and the only statement that runs while one is alive is the wait
\* for it.
C12_OneProcessAlive ==
  /\ Len(waited) <= Len(spawned)
  /\ Len(spawned) <= Len(waited) + 1
  /\ (Len(spawned) = Len(waited) + 1 <=> pc = "communicate")
  /\ (pc = "execute" => Len(spawned) = Len(waited))

\* C12 witness: the third process, of the second language, is alive after
\* the two of the first language's linters have exited
C12_Witness ==
  /\ pc = "communicate"
  /\ Len(spawned) = 3
  /\ Len(waited) = 2
  /\ spawned[1].lang # spawned[3].lang
  /\ spawned[1].linter # spawned[2].linter

\* print_all_fx has written to sys.stdout or sys.stderr
PrintAllOutput ==
  \/ \E k \in 1..Len(sys_stdout) : sys_stdout[k][1] = "write"
  \/ sys_stderr # <<>>

\* __pretty_print has printed a line
PrettyReport ==
  \E k \in 1..Len(sys_stdout) :
    sys_stdout[k][1] \in {"lang", "linter", "file", "linter_total",
                          "lang_total", "total"}

C13_PrettyFromCommandLine ==
  /\ args # NoArgs
  /\ walked
  /\ args.pretty_print
  /\ pc = "exited"
  /\ PrettyReport
  /\ spawned # <<>>

\* C14: in print_all mode, once a process has exited and its callback has
\* run, the stdout of every process that has exited has been written to
\* sys.stdout and its stderr to sys.stderr, once each, in the order the
\* processes were run.
C14_WrittenInDispatchOrder ==
  (print_all /\ pc \notin {"communicate", "result"}) =>
    /\ Len(sys_stdout) = Len(waited)
    /\ Len(sys_stderr) = Len(waited)
    /\ \A k \in 1..Len(waited) :
         /\ sys_stdout[k] = <<"write", Decode(waited[k][2])>>
         /\ sys_stderr[k] = <<"write", Decode(waited[k][3])>>

\* the number of entries of a tree whose process exited with a code # 0
FailedEntries(tree) ==
  Cardinality({k \in 1..Len(Entries(tree)) : Entries(tree)[k].result[1] # 0})

\* C15: in pretty_print mode the report ends with the grand total line,
\* which counts the entries of the tree and those with a nonzero exit code;
\* a linter subtotal is printed only for a language with several linters
\* and a language subtotal only for a tree with several languages; every
\* entry of the tree is listed by its file name; the code returned is 1
\* exactly when some entry failed.
C15_PrettyReport ==
  (/\ pretty_print /\ ~print_all
   /\ results # <<>>
   /\ pc \in {"returned", "raised", "exited"}) =>
    LET tree == results[1]
        es == Entries(tree)
        out == sys_stdout
    IN /\ out # <<>>
       /\ out[Len(out)] = <<"total", Len(es), FailedEntries(tree)>>
       /\ error = NoError
       /\ return_code = (IF FailedEntries(tree) > 0 THEN 1 ELSE 0)
       /\ \A k \in 1..Len(out) :
            /\ out[k][1] = "lang_total" => Len(tree) > 1
            /\ out[k][1] = "linter_total" =>
                 \E i \in 1..Len(tree) :
                   Len(tree[i][2]) > 1 /\ Has(tree[i][2], out[k][2])
       /\ \A n \in 1..Len(es) :
            \E k \in 1..Len(out) :
              /\ out[k][1] = "file"
              /\ out[k][2] = es[n].file

\* the name a linter's runner is looked up by: its runner key, else its own
LookedUp(l) ==
  IF "runner" \in DOMAIN configuration_dict.linters[l]
  THEN configuration_dict.linters[l].runner
  ELSE l

\* C16 as stated: every linter dispatched is run by the runner looked up by
\* its runner override or else its own name, that runner being the default
\* one for a name not registered, and the table of runners holds the default
\* runner from startup.
C16_DefaultRegisteredFromStartup ==
  /\ \A n \in 1..Len(spawned) :
       /\ Has(registry, LookedUp(spawned[n].linter))
       /\ Get(registry, LookedUp(spawned[n].linter)) = "ByFileRunner"
  /\ \E k \in 1..Len(registry) : registry[k][2] = "ByFileRunner"

\* C16 amended: the table of runners is empty from startup until the first
\* linter is dispatched; every linter dispatched is run by the default
\* runner, looked up by its runner override or else its own name, and the
\* lookup stores that name with the default runner in the table, so that
\* the table holds the names looked up and nothing else.
C16_RunnerResolved ==
  /\ (pc \in {"run_linter", "filter", "classify", "lint"} /\ spawned = <<>>) =>
       registry = <<>>
  /\ \A n \in 1..Len(spawned) :
       /\ Has(registry, LookedUp(spawned[n].linter))
       /\ Get(registry, LookedUp(spawned[n].linter)) = "ByFileRunner"
  /\ \A k \in 1..Len(registry) :
       /\ registry[k][2] = "ByFileRunner"
       /\ \A m \in 1..Len(registry) : registry[m][1] = registry[k][1] => m = k
       /\ \E l \in DefinedLinters(configuration_dict) :
            /\ registry[k][1] = LookedUp(l)
            /\ \E lang \in DOMAIN configuration_dict.langs :
                 /\ "linters" \in DOMAIN configuration_dict.langs[lang]
                 /\ l \in Range(configuration_dict.langs[lang].linters)

\* C16 witness: a linter with a runner override has been run, and the table
\* holds the name of the override and not the linter's
C16_Witness ==
  /\ \E n \in 1..Len(spawned) :
       /\ spawned[n].linter = "l2"
       /\ LookedUp("l2") = "l1"
  /\ Has(registry, "l1")
  /\ ~Has(registry, "l2")
  /\ pc = "returned"

\* the processes run for linter of language l, in order
RunsOf(l, linter) ==
  SelectSeq(spawned, LAMBDA e : e.lang = l /\ e.linter = linter)

\* C17 as stated: the tree returned has the classified languages as keys,
\* under each the linters of its list, under each linter one entry per file
\* of the language, and as many entries in all as processes were run.
C17_OneEntryPerInvocation ==
  (results # <<>>) =>
    /\ Range(Keys(results[1])) = Range(Keys(classified_files))
    /\ \A i \in 1..Len(classified_files) : CompleteFor(results[1], i)
    /\ Len(Entries(results[1])) = Len(spawned)

\* C17 amended: the tree returned has exactly the classified languages as
\* keys, under each exactly the names in its linters list, under each
\* linter exactly one entry per file of the language, in the order the
\* files were given to the runner, each the result of the last process run
\* for that language, linter and file; a linter is run on every file once
\* for each time its name is in the list, so that the processes run are as
\* many as the entries exactly when no list repeats a name.
C17_TreeShape ==
  (results # <<>>) =>
    LET tree == results[1]
        cf == classified_files
    IN /\ Len(tree) = Len(cf)
       /\ Range(Keys(tree)) = Range(Keys(cf))
       /\ \A i \in 1..Len(cf) :
            LET l == cf[i][1]
                linters == configuration_dict.langs[l].linters
                d1 == Get(tree, l)
            IN /\ CompleteFor(tree, i)
               /\ Len(d1) = Cardinality(Range(linters))
               /\ Len(SpawnsOf(l)) = Len(linters) * Cardinality(cf[i][2])
               /\ \A j \in 1..Len(d1) :
                    LET rs == RunsOf(l, d1[j][1])
                        d2 == d1[j][2]
                    IN \A k \in 1..Len(d2) :
                         d2[k][1] = rs[Len(rs) - Len(d2) + k].file
       /\ Len(spawned) = Len(waited)
       /\ (Len(Entries(tree)) = Len(spawned) <=>
            \A i \in 1..Len(cf) :
              LET linters == configuration_dict.langs[cf[i][1]].linters
              IN Len(linters) = Cardinality(Range(linters)))

\* C17 witness: a language lists the same linter twice: two processes were
\* run for its file and the tree holds the result of the second
C17_Witness ==
  /\ pc = "returned"
  /\ Len(spawned) = 2
  /\ spawned[1].linter = spawned[2].linter
  /\ spawned[1].file = spawned[2].file
  /\ waited[1] # waited[2]
  /\ Len(Entries(results[1])) = 1
  /\ Entries(results[1])[1].result = waited[2]

\* C17 witness of the ordinary tree: two languages, two linters, three
\* processes and three entries
C17_ThreeEntries ==
  /\ pc = "returned"
  /\ Len(results[1]) = 2
  /\ Len(spawned) = 3
  /\ Len(Entries(results[1])) = 3

\* the step of run_linter a statement belongs to: Discover, Filter,
\* Classify, Dispatch, Report, and the end of the call
Stage(at) ==
  CASE at = "run_linter" -> 1
    [] at = "filter" -> 2
    [] at = "classify" -> 3
    [] at \in {"lint", "linter", "execute", "communicate", "result",
               "record"} -> 4
    [] at = "report" -> 5
    [] OTHER -> 6

\* C18: run_linter goes once through Discover, Filter, Classify, Dispatch
\* and Report and never back; a process is spawned only in Dispatch; the
\* only way out of the wait for a process is the exit of the process; if
\* every process waited for exits, run_linter returns or raises.
C18_LinearPass ==
  /\ [][/\ Stage(pc') >= Stage(pc)
        /\ (Stage(pc) \in {1, 2, 3, 5} => Stage(pc') > Stage(pc))
        /\ (spawned' # spawned => Stage(pc) = 4 /\ Stage(pc') = 4)
        /\ (pc = "communicate" => pc' = "result")]_vars
  /\ ((pc = "communicate" ~> pc = "result") =>
        <>(pc \in {"returned", "raised"}))

\* C18 witness: run_linter has returned after three processes
C18_Witness ==
  /\ pc = "returned"
  /\ Len(spawned) = 3
  /\ Len(waited) = 3

====
